---- MODULE Spec2Model ----
(***************************************************************************)
(* Model of ros2_numpy/point_cloud2.py: the two converters                 *)
(*   array_to_point_cloud2   (point set  -> sensor_msgs/PointCloud2)       *)
(*   point_cloud2_to_array   (PointCloud2 -> point set)                    *)
(*                                                                         *)
(* Bytes are naturals 0..255 and a buffer is a sequence of bytes.  A       *)
(* float32 is its IEEE-754 bit pattern written most significant byte       *)
(* first, <<b3, b2, b1, b0>>; tobytes() and view() lay it out in the       *)
(* platform's byte order (sys.byteorder).  Unsigned integers are naturals  *)
(* and carry their width only when they are serialised.  numpy semantics   *)
(* are those of numpy >= 1.23 (a dtype-changing view needs only the last   *)
(* axis to be contiguous).  The header stamp (time.time()) is left out.    *)
(***************************************************************************)
EXTENDS Integers, Sequences, FiniteSets, TLC

VARIABLES byteorder, np_array, msg, enc_status, out

vars == <<byteorder, np_array, msg, enc_status, out>>

\* ------------------------------------------------------------------ bounds
\* largest number of points in an encoded point set
MaxPoints == 2
\* largest length, in bytes, of a buffer received from outside
MaxBufLen == 36

\* ----------------------------------------------------------------- helpers
Min(a, b) == IF a < b THEN a ELSE b
Max(a, b) == IF a > b THEN a ELSE b

Reverse(s) == [i \in 1..Len(s) |-> s[Len(s) + 1 - i]]

\* Python slice s[a:b] of a sequence, 0-based, clipped to the sequence
Slice(s, a, b) == SubSeq(s, Min(a, Len(s)) + 1, Min(b, Len(s)))

\* list.index(name), 0-based; only used when the name is in the list
IndexOf(names, n) == CHOOSE i \in 0..(Len(names) - 1) :
                        /\ names[i + 1] = n
                        /\ \A j \in 0..(i - 1) : names[j + 1] # n

\* ndarray.ravel() of an (N, c) array given as a sequence of rows
Ravel(rows, c) == [i \in 1..(Len(rows) * c) |->
                      rows[((i - 1) \div c) + 1][((i - 1) % c) + 1]]

\* -------------------------------------------------- scalars <-> raw bytes
\* native byte representation of an unsigned integer v of w bytes
UIntBytes(v, w, bo) ==
    LET le == [i \in 1..w |-> (v \div (256 ^ (i - 1))) % 256]
    IN  IF bo = "little" THEN le ELSE Reverse(le)

\* native unsigned integer held in the bytes bs
BytesUInt(bs, bo) ==
    LET le == IF bo = "little" THEN bs ELSE Reverse(bs)
        RECURSIVE val(_)
        val(k) == IF k > Len(le) THEN 0 ELSE le[k] + 256 * val(k + 1)
    IN  val(1)

\* native byte representation of a float32 bit pattern (msb first)
Float32Bytes(f, bo) == IF bo = "little" THEN Reverse(f) ELSE f

\* float32 bit pattern (msb first) held in 4 native bytes
BytesFloat32(bs, bo) == IF bo = "little" THEN Reverse(bs) ELSE bs

\* np.isnan of a float32: exponent all ones and a non-zero mantissa
IsNaN(f) ==
    /\ (f[1] % 128) * 2 + (f[2] \div 128) = 255
    /\ ((f[2] % 128) # 0 \/ f[3] # 0 \/ f[4] # 0)

\* concatenation of a sequence of byte strings
RECURSIVE Concat(_)
Concat(ss) == IF Len(ss) = 0 THEN <<>> ELSE Head(ss) \o Concat(Tail(ss))

\* arr.astype(np.float32).tobytes() of an (N, 3) array of float32
Float32ToBytes(rows, bo) ==
    LET flat == Ravel(rows, 3)
    IN  Concat([i \in 1..Len(flat) |-> Float32Bytes(flat[i], bo)])

\* v.astype(<unsigned of w bytes>) of a natural below 2^31: wraps modulo 2^(8w)
AsType(v, w) == IF w >= 4 THEN v ELSE v % (256 ^ w)

\* arr.astype(<unsigned of w bytes>).tobytes() of a flat sequence of integers
UIntToBytes(flat, w, bo) ==
    Concat([i \in 1..Len(flat) |-> UIntBytes(AsType(flat[i], w), w, bo)])

\* ------------------------------------------------------------ the message
PointField(name, offset, datatype, count) ==
    [name |-> name, offset |-> offset, datatype |-> datatype, count |-> count]

\* PointCloud2(): every member at its default value
PointCloud2 ==
    [frame_id |-> "", height |-> 0, width |-> 0, fields |-> <<>>,
     is_bigendian |-> FALSE, point_step |-> 0, row_step |-> 0,
     data |-> <<>>, is_dense |-> FALSE]

\* ---------------------------------------------------------------- encoder
\* the field list built at lines 75-88
EncFields(rgb_flag, intensity_flag) ==
    <<PointField("x", 0, "FLOAT32", 1),
      PointField("y", 4, "FLOAT32", 1),
      PointField("z", 8, "FLOAT32", 1)>>
    \o (IF rgb_flag THEN <<PointField("rgb", 12, "UINT32", 1)>> ELSE <<>>)
    \o (IF intensity_flag THEN <<PointField("intensity", 16, "UINT16", 1)>>
                          ELSE <<>>)

\* is_dense computed with .all() in place of .any()
IsDenseAll(xyz) ==
    ~ (\A i \in 1..Len(xyz) : \A j \in 1..3 : IsNaN(xyz[i][j]))

\* msg.is_dense = not np.isnan(np_array["xyz"]).any()
IsDense(xyz) ==
    ~ (\E i \in 1..Len(xyz) : \E j \in 1..3 : IsNaN(xyz[i][j]))

\* msg.point_step after lines 94-99; `dflt` is the value it had before
EncPointStep(rgb_flag, intensity_flag, dflt) ==
    IF rgb_flag /\ intensity_flag THEN 18
    ELSE IF rgb_flag /\ ~intensity_flag THEN 16
    ELSE IF ~rgb_flag /\ intensity_flag THEN 14
    ELSE dflt

\* np.hstack called with the positional arguments `args`.  hstack takes one
\* positional argument, a tuple of arrays; more than one raises TypeError.
\* Given one tuple of bytes objects, each becomes a 1-element array of
\* dtype S<len> (S1 for b""); the result is a 2-element array of dtype
\* S<max len>, every item padded with NULs to that size.
Hstack(args) ==
    IF Len(args) # 1 THEN [status |-> "TypeError", bytes |-> <<>>]
    ELSE LET tup == args[1]
             RECURSIVE maxlen(_)
             maxlen(k) == IF k > Len(tup) THEN 1
                          ELSE Max(Len(tup[k]), maxlen(k + 1))
             itemsize == maxlen(1)
             pad(b) == b \o [i \in 1..(itemsize - Len(b)) |-> 0]
         IN  [status |-> "ok",
              bytes  |-> Concat([k \in 1..Len(tup) |-> pad(tup[k])])]

\* lines 108-136: the memoryview over the serialised columns
MemoryView(pts, bo) ==
    LET rgb_flag == "rgb" \in DOMAIN pts
        intensity_flag == "intensity" \in DOMAIN pts
        xyzb == Float32ToBytes(pts.xyz, bo)
    IN  IF rgb_flag /\ intensity_flag
          THEN Hstack(<<xyzb, UIntToBytes(Ravel(pts.rgb, 3), 4, bo),
                        UIntToBytes(pts.intensity, 2, bo)>>)
        ELSE IF rgb_flag /\ ~intensity_flag
          THEN Hstack(<< <<xyzb, UIntToBytes(Ravel(pts.rgb, 3), 4, bo)>> >>)
        ELSE IF ~rgb_flag /\ intensity_flag
          THEN Hstack(<<xyzb, UIntToBytes(pts.intensity, 2, bo)>>)
        ELSE [status |-> "ok", bytes |-> xyzb]

\* lines 138-145: the bytes put into the array.array("B")
ArrayBytes(mv) == IF Len(mv) > 0 THEN mv ELSE <<>>

\* array_to_point_cloud2(np_array, frame_id): the outcome of the call and
\* the local `msg` as it stands when the call returns or raises
array_to_point_cloud2(pts, frame_id, bo) ==
    LET rgb_flag == "rgb" \in DOMAIN pts
        intensity_flag == "intensity" \in DOMAIN pts
        width == Len(pts.xyz)
        point_step == EncPointStep(rgb_flag, intensity_flag,
                                   PointCloud2.point_step)
        m == [PointCloud2 EXCEPT
                !.frame_id = frame_id,
                !.height = 1,
                !.width = width,
                !.fields = EncFields(rgb_flag, intensity_flag),
                !.is_bigendian = (bo # "little"),
                !.is_dense = IsDense(pts.xyz),
                !.point_step = point_step,
                !.row_step = point_step * width]
        mv == MemoryView(pts, bo)
    IN  IF mv.status # "ok"
          THEN [status |-> mv.status, msg |-> m]
          ELSE [status |-> "returned",
                msg |-> [m EXCEPT !.data = ArrayBytes(mv.bytes)]]

\* ---------------------------------------------------------------- decoder
\* a reshape that drops a trailing partial record instead of raising
ReshapeTruncating(data, point_step) ==
    IF point_step = 0
      THEN [status |-> "ValueError", rows |-> <<>>]
      ELSE [status |-> "ok",
            rows |-> [r \in 1..(Len(data) \div point_step) |->
                        SubSeq(data, (r - 1) * point_step + 1, r * point_step)]]

\* np.frombuffer(data, uint8).reshape(-1, point_step): the rows, or
\* ValueError when the size is no multiple of point_step (always so for
\* point_step = 0, where -1 cannot be resolved)
Reshape(data, point_step) ==
    IF point_step = 0 \/ Len(data) % point_step # 0
      THEN [status |-> "ValueError", rows |-> <<>>]
      ELSE [status |-> "ok",
            rows |-> [r \in 1..(Len(data) \div point_step) |->
                        SubSeq(data, (r - 1) * point_step + 1, r * point_step)]]

\* a[:, lo:hi] of a 2-d uint8 array
Columns(rows, lo, hi) == [r \in 1..Len(rows) |-> Slice(rows[r], lo, hi)]

\* width of a[:, lo:hi] when a has `point_step` columns
ColumnsWidth(point_step, lo, hi) ==
    Max(0, Min(hi, point_step) - Min(lo, point_step))

\* bytes per element of a numpy dtype
ItemSize(dtype) == IF dtype = "uint16" THEN 2 ELSE 4

\* the element of `dtype` held in ItemSize(dtype) native bytes
FromBytes(dtype, b, bo) ==
    IF dtype = "uint16" THEN BytesUInt(b, bo) ELSE BytesFloat32(b, bo)

\* a.view(dtype) of a 2-d uint8 array whose rows are `w` bytes wide:
\* ValueError unless the item size divides w
View(rows, w, dtype, bo) ==
    LET size == ItemSize(dtype)
    IN  IF w % size # 0
          THEN [status |-> "ValueError", rows |-> <<>>]
          ELSE [status |-> "ok",
                rows |-> [r \in 1..Len(rows) |->
                            [k \in 1..(w \div size) |->
                               FromBytes(dtype,
                                 SubSeq(rows[r], (k - 1) * size + 1, k * size),
                                 bo)]]]

\* a.reshape(-1, 3) of a 2-d array whose rows have `c` elements
Reshape3(rows, c) ==
    LET flat == Ravel(rows, c)
    IN  IF Len(flat) % 3 # 0
          THEN [status |-> "ValueError", rows |-> <<>>]
          ELSE [status |-> "ok",
                rows |-> [r \in 1..(Len(flat) \div 3) |->
                            SubSeq(flat, 3 * r - 2, 3 * r)]]

\* lines 20-33: whether `name` is a field name, and where in the list
FieldNames(m) == [i \in 1..Len(m.fields) |-> m.fields[i].name]

HasField(m, name) == \E i \in 1..Len(m.fields) : m.fields[i].name = name

\* the start column used for an optional channel: field_names.index(name)
ChannelStart(m, name) == IndexOf(FieldNames(m), name)

\* rgb = pc_data[:, rgb_idx : rgb_idx + 3][:, ::-1]
DecodeRgb(rows, rgb_idx) ==
    [r \in 1..Len(rows) |-> Reverse(Slice(rows[r], rgb_idx, rgb_idx + 3))]

\* a dictionary with no key: what a call that raised leaves behind
NoDict == [k \in {} |-> <<>>]

Raised(e) == [status |-> e, value |-> NoDict]

\* point_cloud2_to_array(msg): the dictionary returned, or the exception
point_cloud2_to_array(m, bo) ==
    LET rgb_flag == HasField(m, "rgb")
        intensity_flag == HasField(m, "intensity")
        pc_data == Reshape(m.data, m.point_step)
        wx == ColumnsWidth(m.point_step, 0, 12)
        xyzv == View(Columns(pc_data.rows, 0, 12), wx, "float32", bo)
        xyz == Reshape3(xyzv.rows, wx \div 4)
        ii == ChannelStart(m, "intensity")
        wi == ColumnsWidth(m.point_step, ii, ii + 2)
        intensity == View(Columns(pc_data.rows, ii, ii + 2), wi, "uint16", bo)
        rgb == DecodeRgb(pc_data.rows, ChannelStart(m, "rgb"))
    IN  IF pc_data.status # "ok" THEN Raised(pc_data.status)
        ELSE IF xyzv.status # "ok" THEN Raised(xyzv.status)
        ELSE IF xyz.status # "ok" THEN Raised(xyz.status)
        ELSE IF intensity_flag /\ intensity.status # "ok"
          THEN Raised(intensity.status)
        ELSE [status |-> "returned",
              value |->
                IF rgb_flag /\ intensity_flag
                  THEN [xyz |-> xyz.rows, rgb |-> rgb,
                        intensity |-> intensity.rows]
                ELSE IF rgb_flag /\ ~intensity_flag
                  THEN [xyz |-> xyz.rows, rgb |-> rgb]
                ELSE IF ~rgb_flag /\ intensity_flag
                  THEN [xyz |-> xyz.rows, intensity |-> intensity.rows]
                ELSE [xyz |-> xyz.rows]]

\* ----------------------------------------------------------------- inputs
\* float32 values as bit patterns: 0.0, 1.0, -2.0, +inf, NaN
F0   == <<0, 0, 0, 0>>
F1   == <<63, 128, 0, 0>>
FM2  == <<192, 0, 0, 0>>
FInf == <<127, 128, 0, 0>>
FNaN == <<127, 192, 0, 0>>

Positions == {<<F0, F0, F0>>, <<F1, FM2, F0>>, <<FInf, F1, FM2>>,
              <<F1, FNaN, FInf>>}
Colours == {<<255, 0, 16>>, <<1, 2, 3>>}
Intensities == {513, 65280}

SeqsOfLen(S, n) == [1..n -> S]

\* the point sets handed to the encoder: N rows in every column present
PointSets ==
    UNION {
      LET X == SeqsOfLen(Positions, n)
          C == SeqsOfLen(Colours, n)
          I == SeqsOfLen(Intensities, n)
      IN  {[xyz |-> x] : x \in X}
          \cup {[xyz |-> x, rgb |-> c] : x \in X, c \in C}
          \cup {[xyz |-> x, intensity |-> i] : x \in X, i \in I}
          \cup {[xyz |-> x, rgb |-> c, intensity |-> i] :
                   x \in X, c \in C, i \in I}
      : n \in 0..MaxPoints }

\* field lists of messages received from other publishers
XYZFields == EncFields(FALSE, FALSE)

ReceivedFieldLists ==
    { XYZFields,
      XYZFields \o <<PointField("rgb", 12, "UINT32", 1)>>,
      XYZFields \o <<PointField("rgb", 16, "UINT32", 1)>>,
      XYZFields \o <<PointField("intensity", 12, "UINT16", 1)>>,
      XYZFields \o <<PointField("rgb", 12, "UINT32", 1),
                     PointField("intensity", 16, "UINT16", 1)>>,
      XYZFields \o <<PointField("intensity", 12, "UINT16", 1),
                     PointField("rgb", 14, "UINT32", 1)>> }

ReceivedPointSteps == {0, 5, 10, 12, 14, 16, 18, 20}

\* a buffer of n bytes, all different within a record
Ramp(seed, n) == [i \in 1..n |-> (seed + 3 * (i - 1)) % 256]

ReceivedMsgs ==
    { [PointCloud2 EXCEPT
         !.frame_id = "sensor",
         !.height = 1,
         !.width = IF ps = 0 THEN 0 ELSE n \div ps,
         !.fields = fl,
         !.point_step = ps,
         !.row_step = n,
         !.is_dense = TRUE,
         !.data = Ramp(seed, n)] :
      fl \in ReceivedFieldLists, ps \in ReceivedPointSteps,
      n \in 0..MaxBufLen, seed \in {1, 200} }

\* ---------------------------------------------------------- state machine
\* Both converters are pure functions of their arguments, so a behaviour
\* follows one input: a point set through array_to_point_cloud2 and then
\* point_cloud2_to_array, or a received message through
\* point_cloud2_to_array.
\* byteorder   sys.byteorder of the platform
\* np_array    the point set given to array_to_point_cloud2
\* msg         the message built by that call, or the message received
\* enc_status  "none" before the encoder call, then how it ended;
\*             "received" for a message that came from another publisher
\* out         how the point_cloud2_to_array call on msg ended, and its result
NoOut == [status |-> "none", value |-> NoDict]

Init ==
    /\ byteorder \in {"little", "big"}
    /\ out = NoOut
    /\ \/ /\ np_array \in PointSets
          /\ msg = PointCloud2
          /\ enc_status = "none"
       \/ /\ np_array = [xyz |-> <<>>]
          /\ msg \in ReceivedMsgs
          /\ enc_status = "received"

\* msgify: array_to_point_cloud2(np_array) with the default frame_id
Msgify ==
    /\ enc_status = "none"
    /\ LET r == array_to_point_cloud2(np_array, "base_link", byteorder)
       IN  /\ msg' = r.msg
           /\ enc_status' = r.status
    /\ UNCHANGED <<byteorder, np_array, out>>

\* numpify of the message the encoder returned
NumpifyEncoded ==
    /\ enc_status = "returned"
    /\ out.status = "none"
    /\ out' = point_cloud2_to_array(msg, byteorder)
    /\ UNCHANGED <<byteorder, np_array, msg, enc_status>>

\* numpify of a message received from another publisher
NumpifyReceived ==
    /\ enc_status = "received"
    /\ out.status = "none"
    /\ out' = point_cloud2_to_array(msg, byteorder)
    /\ UNCHANGED <<byteorder, np_array, msg, enc_status>>

Next ==
    \/ Msgify
    \/ NumpifyEncoded
    \/ NumpifyReceived

Spec == Init /\ [][Next]_vars

\* ------------------------------------------------------------- properties
Keys == DOMAIN np_array
N == Len(np_array.xyz)
FromEncoder == enc_status \in {"returned", "TypeError"}
Decoded == out.status # "none"

\* L is an exact multiple of step
IsMultiple(L, step) == \E k \in 0..L : k * step = L

\* C1: a point set with only xyz, encoded and then decoded, comes back as a
\* point set whose only key is xyz with the same N triples in the same order.
C1_RoundTripXyz ==
    (FromEncoder /\ Keys = {"xyz"} /\ Decoded) =>
        /\ out.status = "returned"
        /\ DOMAIN out.value = {"xyz"}
        /\ out.value.xyz = np_array.xyz

\* C2: a point set with xyz and rgb, encoded and then decoded, comes back
\* with an rgb column equal to the input: the same N triples, same bytes,
\* same red-green-blue order.
C2_RoundTripRgb ==
    (FromEncoder /\ Keys = {"xyz", "rgb"} /\ Decoded) =>
        /\ out.status = "returned"
        /\ "rgb" \in DOMAIN out.value
        /\ out.value.rgb = np_array.rgb

\* C3: for a point set with xyz and intensity the encoder returns without
\* raising, and decoding its message gives back the same intensity values
\* in the same order.
C3_RoundTripIntensity ==
    (FromEncoder /\ Keys = {"xyz", "intensity"}) =>
        /\ enc_status = "returned"
        /\ Decoded =>
             /\ out.status = "returned"
             /\ "intensity" \in DOMAIN out.value
             /\ Ravel(out.value.intensity, 1) = np_array.intensity

\* C4: the encoder sets point_step from the columns present: 12 for {xyz},
\* 16 for {xyz, rgb}, 14 for {xyz, intensity}, 18 for all three; never 0.
C4_PointStep ==
    FromEncoder =>
        /\ msg.point_step =
             12 + (IF "rgb" \in Keys THEN 4 ELSE 0)
                + (IF "intensity" \in Keys THEN 2 ELSE 0)
        /\ msg.point_step # 0

\* C5: for every input the encoder returns a message whose buffer has
\* length point_step * N, with height 1, width N and row_step point_step * N.
C5_BufferLength ==
    FromEncoder =>
        /\ enc_status = "returned"
        /\ Len(msg.data) = msg.point_step * N
        /\ msg.height = 1
        /\ msg.width = N
        /\ msg.row_step = msg.point_step * N

FieldWidth(f) ==
    (IF f.datatype = "UINT16" THEN 2 ELSE 4) * f.count

\* C6: in every message the encoder returns no two fields overlap, every
\* field ends at or before point_step, and intensity sits at offset 12
\* without rgb and at offset 16 with rgb.
C6_LayoutInvariant ==
    enc_status = "returned" =>
        /\ \A i \in 1..Len(msg.fields) :
             msg.fields[i].offset + FieldWidth(msg.fields[i]) <= msg.point_step
        /\ \A i, j \in 1..Len(msg.fields) :
             i < j =>
               \/ msg.fields[i].offset + FieldWidth(msg.fields[i])
                    <= msg.fields[j].offset
               \/ msg.fields[j].offset + FieldWidth(msg.fields[j])
                    <= msg.fields[i].offset
        /\ \A i \in 1..Len(msg.fields) :
             msg.fields[i].name = "intensity" =>
               msg.fields[i].offset = IF "rgb" \in Keys THEN 16 ELSE 12

\* C7: decoding a buffer whose length is no exact multiple of point_step
\* raises, and no point set, not even a truncated xyz, is returned.
C7_MalformedBufferRaises ==
    (Decoded /\ ~IsMultiple(Len(msg.data), msg.point_step)) =>
        /\ out.status = "ValueError"
        /\ DOMAIN out.value = {}

C7_Witness ==
    /\ Decoded
    /\ msg.point_step > 0
    /\ Len(msg.data) > msg.point_step
    /\ Len(msg.data) % msg.point_step # 0
    /\ out.status = "ValueError"

\* C8: zero-row inputs never raise: encoding a point set with 0 rows
\* returns a message with an empty buffer, width 0 and row_step 0, and
\* decoding an empty buffer, whatever the layout, returns an xyz of 0 rows.
C8_EmptyInput ==
    /\ (FromEncoder /\ N = 0) =>
         /\ enc_status = "returned"
         /\ Len(msg.data) = 0
         /\ msg.width = 0
         /\ msg.row_step = 0
    /\ (Decoded /\ Len(msg.data) = 0) =>
         /\ out.status = "returned"
         /\ Len(out.value.xyz) = 0

\* C9: the encoder sets is_dense to FALSE when some coordinate of some xyz
\* triple is NaN and to TRUE otherwise, whatever other columns are present.
C9_IsDense ==
    FromEncoder =>
        msg.is_dense =
          ~ (\E i \in 1..N : \E j \in 1..3 : np_array.xyz[i][j] = FNaN)

C9_WitnessNaN ==
    /\ FromEncoder
    /\ "rgb" \in Keys
    /\ N = MaxPoints
    /\ np_array.xyz[1] = <<FInf, F1, FM2>>
    /\ np_array.xyz[N][2] = FNaN
    /\ msg.is_dense = FALSE

FieldOffset(m, name) ==
    LET i == CHOOSE k \in 1..Len(m.fields) : m.fields[k].name = name
    IN  m.fields[i].offset

Records == Reshape(msg.data, msg.point_step).rows

\* every field of the message lies inside the record
FieldsFit ==
    \A i \in 1..Len(msg.fields) :
       msg.fields[i].offset + FieldWidth(msg.fields[i]) <= msg.point_step

\* C10: the decoder finds an optional channel at the byte_offset of its
\* field descriptor: rgb is the 3 bytes from that offset, reversed, and
\* intensity the 2 bytes from its offset read as a little-endian uint16.
C10_ChannelsByOffset ==
    (Decoded /\ out.status = "returned" /\ FieldsFit) =>
        /\ HasField(msg, "rgb") =>
             out.value.rgb =
               [r \in 1..Len(Records) |->
                  LET o == FieldOffset(msg, "rgb")
                  IN  Reverse(SubSeq(Records[r], o + 1, o + 3))]
        /\ HasField(msg, "intensity") =>
             out.value.intensity =
               [r \in 1..Len(Records) |->
                  LET o == FieldOffset(msg, "intensity")
                  IN  <<Records[r][o + 1] + 256 * Records[r][o + 2]>>]

====
